---- MODULE Spec2Model ----
(***************************************************************************)
(* The address intake pipeline of ipv666 (common/input/input.go,           *)
(* PrepareFromInputFile and its helpers) and the result writer             *)
(* (common/statemachine/addrupdate.go, updateAddressFile).                 *)
(*                                                                         *)
(* An address is a natural number of AddrBits bits (128 in the program).   *)
(* The workspace is the set of regular files under BaseOutputDirectory     *)
(* plus the phase state file; the output address file is kept apart.       *)
(***************************************************************************)
EXTENDS Integers, Sequences, FiniteSets, TLC

\* ---------------------------------------------------------------- bounds
MaxAddr == 2        \* addresses are 0..MaxAddr
AddrBits == 2       \* width of an address (one model byte per bit)
MaxLen == 4         \* longest input list of a single intake run
MaxPhase == 2       \* phases are 0..MaxPhase
MaxRuns == 2        \* invocations in a sequence of intake runs
MaxLenRuns == 1     \* longest input list in a sequence of intake runs
MaxPings == 2       \* longest list of clean ping results
MaxCalls == 1       \* calls of updateAddressFile in one behaviour

\* statemachine.NETWORK_GROUP, the phase updateState stores
NETWORK_GROUP == 1

Addrs == 0..MaxAddr
Phases == 0..MaxPhase

RECURSIVE ListsOf(_, _)
ListsOf(S, n) ==
    IF n = 0 THEN {<<>>}
    ELSE LET shorter == ListsOf(S, n - 1)
         IN  shorter \cup {Append(l, x) : l \in {m \in shorter : Len(m) = n - 1}, x \in S}

Min(a, b) == IF a < b THEN a ELSE b

Range(s) == {s[i] : i \in 1..Len(s)}

IsPrefix(p, s) == Len(p) <= Len(s) /\ SubSeq(s, 1, Len(p)) = p

\* ------------------------------------------------------- configuration
\* config.Configuration, the fields the two files read
Confs ==
    [InputMinAddresses : {1, 3},
     InputEntropyThreshold : {0, 1},
     InputEntropyBitLength : {1, AddrBits},
     InputEmitFreq : {0, 1}]

FileTypes == {"bin", "text", "csv"}

\* An input file: the encoding its bytes are in and the addresses they hold.
InputFiles(n) == [format : {"bin", "hex"}, addrs : ListsOf(Addrs, n)]

\* ------------------------------------------------------- collaborators
\* zrandom.GetEntropyOfBitsFromRight: a score of the variability of the
\* rightmost bitEnd bits (here: the count of the rarer bit value).
Bit(a, k) == (a \div (2 ^ k)) % 2

GetEntropyOfBitsFromRight(a, bitEnd) ==
    LET ones == Cardinality({k \in 0..(bitEnd - 1) : Bit(a, k) = 1})
    IN  Min(ones, bitEnd - ones)

\* shell.PromptForApproval: an error when the operator does not approve
PromptForApproval(approved) == IF approved THEN "nil" ELSE "ConfirmationDeclined"

\* addressing.ReadIPsFromBinaryFile / ReadIPsFromHexFile: decode or fail
ReadIPsFromBinaryFile(file) ==
    IF file.format = "bin" THEN [ips |-> file.addrs, err |-> "nil"]
    ELSE [ips |-> <<>>, err |-> "FormatError"]

ReadIPsFromHexFile(file) ==
    IF file.format = "hex" THEN [ips |-> file.addrs, err |-> "nil"]
    ELSE [ips |-> <<>>, err |-> "FormatError"]

\* addressing.GetUniqueIPs: single pass, first occurrence wins
RECURSIVE UniqueLoop(_, _, _, _)
UniqueLoop(ips, i, seen, toReturn) ==
    IF i > Len(ips) THEN toReturn
    ELSE IF ips[i] \in seen THEN UniqueLoop(ips, i + 1, seen, toReturn)
    ELSE UniqueLoop(ips, i + 1, seen \cup {ips[i]}, Append(toReturn, ips[i]))

GetUniqueIPs(ips) == UniqueLoop(ips, 1, {}, <<>>)

\* The hex line addressing.WriteIPsToHexFile writes for one address:
\* one character ("0" is 48) per model byte.
IPToHex(a) == [i \in 1..AddrBits |-> 48 + Bit(a, AddrBits - i)]

HexLines(ips) == [i \in 1..Len(ips) |-> IPToHex(ips[i])]

\* ([]byte)(*addr): the raw bytes of an address, most significant first
ToBytes(a) == [i \in 1..AddrBits |-> Bit(a, AddrBits - i)]

\* net.IP.String(): the text form, "::" (58 is ":") and the value's digit
IPString(a) == <<58, 58, 48 + a>>

Newline == <<10>>

\* ------------------------------------------------------ pure functions
\* removeDuplicateIPs with the call of GetUniqueIPs left out
removeDuplicateIPs_Keep(ips) == ips

\* removeDuplicateIPs
removeDuplicateIPs(ips) == GetUniqueIPs(ips)

\* filterOutHighEntropyIPs comparing with <= instead of <
filterOutHighEntropyIPs_Leq(ips, c) ==
    SelectSeq(ips, LAMBDA a :
        GetEntropyOfBitsFromRight(a, c.InputEntropyBitLength) <= c.InputEntropyThreshold)

\* filterOutHighEntropyIPs: the loop of lines 121-130
RECURSIVE FilterLoop(_, _, _, _)
FilterLoop(ips, c, i, toReturn) ==
    IF i > Len(ips) THEN toReturn
    ELSE LET entropy == GetEntropyOfBitsFromRight(ips[i], c.InputEntropyBitLength)
         IN  FilterLoop(ips, c, i + 1,
                        IF entropy < c.InputEntropyThreshold
                        THEN Append(toReturn, ips[i])
                        ELSE toReturn)

filterOutHighEntropyIPs(ips, c) == FilterLoop(ips, c, 1, <<>>)

\* i % conf.InputEmitFreq at line 122 is an integer division by zero when
\* the interval is 0: the first iteration panics.
FilterPanics(ips, c) == Len(ips) > 0 /\ c.InputEmitFreq = 0

\* getIPsFromFile: the decoder is chosen by the declared type
\* (lines 61-65), and exactly one line is logged: the error or the
\* success message (lines 66-70)
getIPsFromFile(file, inputFileType) ==
    LET decoder == IF inputFileType = "bin" THEN "bin" ELSE "hex"
        r == IF inputFileType = "bin" THEN ReadIPsFromBinaryFile(file)
             ELSE ReadIPsFromHexFile(file)
    IN  [ips |-> r.ips, err |-> r.err, decoder |-> decoder,
         log |-> IF r.err # "nil" THEN <<"error">> ELSE <<"success">>]

\* confirmTooFew dropping the prompt's error
confirmTooFew_Ignored(approved) == "nil"

\* confirmCleanUpExisting / confirmTooFew: the prompt's error, unchanged
confirmCleanUpExisting(approved) == PromptForApproval(approved)

confirmTooFew(approved) == PromptForApproval(approved)

\* ---------------------------------------------------------------- state
VARIABLES
    pc,         \* position of the run of PrepareFromInputFile
    conf,       \* its configuration
    fileType,   \* its declared input encoding
    load,       \* the decoder getIPsFromFile used and the lines it logged
    inputFile,  \* the file at inputFilePath
    addrs,      \* the local addrs
    err,        \* the value returned ("nil" while running and on success)
    files,      \* regular files under BaseOutputDirectory
    phaseFile,  \* the phase state file: <<>> when absent, else <<phase>>
    now,        \* the clock behind fs.GetTimedFilePath
    steps,      \* the steps this run has executed, with their results
    answers,    \* the operator's answers to this run's prompts
    before,     \* the workspace when the run began
    filterIn,   \* the list the last call of filterOutHighEntropyIPs was given
    outputFile, \* the bytes of the output address file (absent = empty)
    call,       \* the last call of updateAddressFile and what it returned
    calls       \* calls of updateAddressFile so far

intake == <<pc, conf, fileType, load, inputFile, addrs, err, files, phaseFile, now, steps,
            answers, before, filterIn>>

writer == <<outputFile, call, calls>>

vars == <<pc, conf, fileType, load, inputFile, addrs, err, files, phaseFile, now, steps,
          answers, before, filterIn, outputFile, call, calls>>

workspace == [files |-> files, phaseFile |-> phaseFile]

\* Files a previous campaign left behind
StaleFiles ==
    {[dir |-> "model", t |-> 0, data |-> <<>>],
     [dir |-> "ping", t |-> 0, data |-> <<IPToHex(0)>>]}

NoConf ==
    [InputMinAddresses |-> 1, InputEntropyThreshold |-> 0,
     InputEntropyBitLength |-> 1, InputEmitFreq |-> 1]

NoFile == [format |-> "hex", addrs |-> <<>>]

NoLoad == [decoder |-> "none", log |-> <<>>]

NoCall ==
    [type |-> "text", pings |-> <<>>, load |-> "nil", opened |-> FALSE,
     fault |-> "none", ret |-> "none", warned |-> FALSE]

\* No run of the intake pipeline has begun
IntakeIdle ==
    /\ pc = "Idle"
    /\ conf = NoConf
    /\ fileType = "text"
    /\ load = NoLoad
    /\ inputFile = NoFile
    /\ addrs = <<>>
    /\ err = "nil"
    /\ now = 0
    /\ steps = <<>>
    /\ answers = <<>>
    /\ before = [files |-> files, phaseFile |-> phaseFile]
    /\ filterIn = <<>>

\* No call of updateAddressFile has been made
WriterIdle ==
    /\ call = NoCall
    /\ calls = 0

\* A workspace that is fresh or was left by a previous campaign, with no
\* state file or with one holding the given phases
Workspaces(phases) ==
    /\ files \in {{}, StaleFiles}
    /\ phaseFile \in {<<>>} \cup {<<p>> : p \in phases}

\* A single run starts from no state file, the first or the last phase
Init ==
    /\ Workspaces({0, MaxPhase})
    /\ IntakeIdle
    /\ outputFile = <<>>
    /\ WriterIdle

\* A sequence of runs starts from any phase
InitRuns ==
    /\ Workspaces(Phases)
    /\ IntakeIdle
    /\ outputFile = <<>>
    /\ WriterIdle

Did(step, e) == steps' = Append(steps, [step |-> step, err |-> e])

\* return e: the run ends with the error e
Return(next, e) ==
    /\ pc' = next
    /\ err' = IF next = "Aborted" THEN e ELSE err

\* A call of PrepareFromInputFile(inputFilePath, fileType, conf)
Enter(n, cs) ==
    /\ pc' = "Confirming"
    /\ conf' \in cs
    /\ fileType' \in FileTypes
    /\ load' = NoLoad
    /\ inputFile' \in InputFiles(n)
    /\ addrs' = <<>>
    /\ err' = "nil"
    /\ now' = now + 1
    /\ steps' = <<>>
    /\ answers' = <<>>
    /\ before' = workspace
    /\ filterIn' = <<>>
    /\ UNCHANGED <<files, phaseFile, writer>>

Invoke(n, cs) == pc = "Idle" /\ Enter(n, cs)

Finished == {"Done", "Aborted", "Panicked"}

\* The operator invokes the intake again after a run has ended
Reinvoke(n, cs) == pc \in Finished /\ now < MaxRuns /\ Enter(n, cs)

\* lines 19-21
AfterConfirmCleanUp(e) == IF e # "nil" THEN "Aborted" ELSE "Loading"

\* line 18
ConfirmCleanUp ==
    /\ pc = "Confirming"
    /\ \E approved \in BOOLEAN :
        LET e == confirmCleanUpExisting(approved)
        IN  /\ answers' = Append(answers, approved)
            /\ Did("confirmCleanUpExisting", e)
            /\ Return(AfterConfirmCleanUp(e), e)
    /\ UNCHANGED <<conf, fileType, load, inputFile, addrs, files, phaseFile, now, before,
                   filterIn, writer>>

\* lines 24-26
AfterLoad(e) == IF e # "nil" THEN "Aborted" ELSE "Deduplicating"

\* line 23
Load ==
    /\ pc = "Loading"
    /\ LET r == getIPsFromFile(inputFile, fileType)
       IN  /\ Did("getIPsFromFile", r.err)
           /\ addrs' = r.ips
           /\ load' = [decoder |-> r.decoder, log |-> r.log]
           /\ Return(AfterLoad(r.err), r.err)
    /\ UNCHANGED <<conf, fileType, inputFile, files, phaseFile, now, answers, before,
                   filterIn, writer>>

\* line 28
Deduplicate ==
    /\ pc = "Deduplicating"
    /\ addrs' = removeDuplicateIPs(addrs)
    /\ Did("removeDuplicateIPs", "nil")
    /\ pc' = "Filtering"
    /\ UNCHANGED <<conf, fileType, load, inputFile, err, files, phaseFile, now, answers,
                   before, filterIn, writer>>

\* line 30
Filter ==
    /\ pc = "Filtering"
    /\ filterIn' = addrs
    /\ IF FilterPanics(addrs, conf)
       THEN /\ pc' = "Panicked"
            /\ Did("filterOutHighEntropyIPs", "panic")
            /\ UNCHANGED addrs
       ELSE /\ pc' = "ThresholdCheck"
            /\ Did("filterOutHighEntropyIPs", "nil")
            /\ addrs' = filterOutHighEntropyIPs(addrs, conf)
    /\ UNCHANGED <<conf, fileType, load, inputFile, err, files, phaseFile, now, answers,
                   before, writer>>

\* the threshold check comparing with <= instead of <
TooFew_Leq(count, c) == count <= c.InputMinAddresses

\* the threshold check left out
TooFew_Never(count, c) == FALSE

\* line 32
TooFew(count, c) == count < c.InputMinAddresses

\* lines 34-36
AfterConfirmTooFew(e) == IF e # "nil" THEN "Aborted" ELSE "ResettingWorkspace"

\* lines 32-37
ThresholdCheck ==
    /\ pc = "ThresholdCheck"
    /\ IF TooFew(Len(addrs), conf)
       THEN \E approved \in BOOLEAN :
               LET e == confirmTooFew(approved)
               IN  /\ answers' = Append(answers, approved)
                   /\ Did("confirmTooFew", e)
                   /\ Return(AfterConfirmTooFew(e), e)
       ELSE /\ pc' = "ResettingWorkspace"
            /\ UNCHANGED <<steps, err, answers>>
    /\ UNCHANGED <<conf, fileType, load, inputFile, addrs, files, phaseFile, now, before,
                   filterIn, writer>>

\* the reset's error not checked
AfterCleanUp_Unchecked(e) == "Bootstrapping"

\* lines 40-42
AfterCleanUp(e) == IF e # "nil" THEN "Aborted" ELSE "Bootstrapping"

\* cleanUpWorkingDirectories, lines 142-151, called at line 39.
\* fs.DeleteAllFilesInDirectory deletes file by file and stops at the first
\* failure, leaving what it had not yet deleted.
CleanUp ==
    /\ pc = "ResettingWorkspace"
    /\ \/ /\ files' = {}
          /\ phaseFile' = <<>>
          /\ Did("cleanUpWorkingDirectories", "nil")
          /\ Return(AfterCleanUp("nil"), "nil")
       \/ /\ \E kept \in SUBSET files : files' = kept
          /\ \E keepPhase \in BOOLEAN :
                phaseFile' = IF keepPhase THEN phaseFile ELSE <<>>
          /\ Did("cleanUpWorkingDirectories", "IOError")
          /\ Return(AfterCleanUp("IOError"), "IOError")
    /\ UNCHANGED <<conf, fileType, load, inputFile, addrs, now, answers, before, filterIn,
                   writer>>

\* lines 45-47
AfterCreateBlankModel(e) == IF e # "nil" THEN "Aborted" ELSE "Writing"

\* createBlankModel, lines 153-164, called at line 44
Bootstrap ==
    /\ pc = "Bootstrapping"
    /\ \/ /\ files' = files \cup {[dir |-> "model", t |-> now, data |-> <<>>]}
          /\ Did("createBlankModel", "nil")
          /\ Return(AfterCreateBlankModel("nil"), "nil")
       \/ /\ UNCHANGED files
          /\ Did("createBlankModel", "IOError")
          /\ Return(AfterCreateBlankModel("IOError"), "IOError")
    /\ UNCHANGED <<conf, fileType, load, inputFile, addrs, phaseFile, now, answers, before,
                   filterIn, writer>>

\* line 49: the error writeNewAddresses returns is not looked at
AfterWriteNewAddresses(e) == "AdvancingState"

\* writeNewAddresses, lines 84-94, called at line 49. A failing
\* addressing.WriteIPsToHexFile leaves no file or a file cut short.
Write ==
    /\ pc = "Writing"
    /\ \/ /\ files' = files \cup
                 {[dir |-> "ping", t |-> now, data |-> HexLines(addrs)]}
          /\ Did("writeNewAddresses", "nil")
          /\ Return(AfterWriteNewAddresses("nil"), "nil")
       \/ /\ \/ UNCHANGED files
             \/ \E k \in 0..(Len(addrs) - 1) :
                  files' = files \cup
                      {[dir |-> "ping", t |-> now, data |-> HexLines(SubSeq(addrs, 1, k))]}
          /\ Did("writeNewAddresses", "IOError")
          /\ Return(AfterWriteNewAddresses("IOError"), "IOError")
    /\ UNCHANGED <<conf, fileType, load, inputFile, addrs, phaseFile, now, answers, before,
                   filterIn, writer>>

\* statemachine.SetStateFile: the file holds the one phase written
SetStateFile(phase) == <<phase>>

\* updateState storing the first phase instead of NETWORK_GROUP
updateState_First(stored, e) == IF e = "nil" THEN SetStateFile(0) ELSE stored

\* updateState, lines 74-82: what the state file holds afterwards
updateState(stored, e) == IF e = "nil" THEN SetStateFile(NETWORK_GROUP) ELSE stored

\* a failed state advance tried again instead of returned
AfterUpdateState_Retry(e) == IF e # "nil" THEN "AdvancingState" ELSE "Done"

\* lines 52-55
AfterUpdateState(e) == IF e # "nil" THEN "Aborted" ELSE "Done"

\* line 51
UpdateState ==
    /\ pc = "AdvancingState"
    /\ \E e \in {"nil", "IOError"} :
          /\ phaseFile' = updateState(phaseFile, e)
          /\ Did("updateState", e)
          /\ Return(AfterUpdateState(e), e)
    /\ UNCHANGED <<conf, fileType, load, inputFile, addrs, files, now, answers, before,
                   filterIn, writer>>

PrepareFromInputFile ==
    \/ ConfirmCleanUp
    \/ Load
    \/ Deduplicate
    \/ Filter
    \/ ThresholdCheck
    \/ CleanUp
    \/ Bootstrap
    \/ Write
    \/ UpdateState

Next ==
    \/ Invoke(MaxLen, Confs)
    \/ PrepareFromInputFile

Spec == Init /\ [][Next]_vars

\* ------------------------------------------------- sequences of runs
\* The configurations of a sequence of runs: every address is kept, and
\* the minimum count decides whether the second prompt is shown.
RunConfs ==
    {c \in Confs : /\ c.InputEntropyThreshold = 1
                   /\ c.InputEntropyBitLength = 1
                   /\ c.InputEmitFreq = 1}

NextRuns ==
    \/ Invoke(MaxLenRuns, RunConfs)
    \/ Reinvoke(MaxLenRuns, RunConfs)
    \/ PrepareFromInputFile

SpecRuns == InitRuns /\ [][NextRuns]_vars

\* --------------------------------- filterOutHighEntropyIPs on any list
PureConfs ==
    [InputMinAddresses : {1},
     InputEntropyThreshold : 0..AddrBits,
     InputEntropyBitLength : 1..AddrBits,
     InputEmitFreq : 0..2]

InitFilter ==
    /\ pc = "Filtering"
    /\ conf \in PureConfs
    /\ addrs \in ListsOf(Addrs, MaxLen)
    /\ fileType = "text"
    /\ load = NoLoad
    /\ inputFile = [format |-> "hex", addrs |-> addrs]
    /\ err = "nil"
    /\ files = {}
    /\ phaseFile = <<>>
    /\ now = 1
    /\ steps = <<>>
    /\ answers = <<>>
    /\ before = [files |-> files, phaseFile |-> phaseFile]
    /\ filterIn = <<>>
    /\ outputFile = <<>>
    /\ WriterIdle

SpecFilter == InitFilter /\ [][Filter]_vars

\* ----------------------------------------------------- the result writer
RECURSIVE Concat(_)
Concat(ss) == IF ss = <<>> THEN <<>> ELSE Head(ss) \o Concat(Tail(ss))

\* lines 39-41: fmt.Sprintf("%s\n", addr) for each clean ping result
TextRecords(pings) == Concat([i \in 1..Len(pings) |-> IPString(pings[i]) \o Newline])

\* lines 43-46: the raw bytes of each clean ping result
BinRecords(pings) == Concat([i \in 1..Len(pings) |-> ToBytes(pings[i])])

\* lines 35-47: what the call hands to the buffered writer
Records(type, pings) ==
    IF type # "bin" THEN TextRecords(pings) ELSE BinRecords(pings)

\* lines 35-38: the warning about an unexpected format
Warns(type) == type # "bin" /\ ~(type = "text")

\* the error of GetCleanPingResults not looked at
AfterGetCleanPingResults_Ignored(e) == "open"

\* lines 22-24: a load error is returned at once
AfterGetCleanPingResults(e) == IF e # "nil" THEN "return" ELSE "open"

\* updateAddressFile, lines 20-53. The environment decides which operation
\* fails: loading the clean pings, opening the file, or a write or the
\* flush (after which only a prefix of the records has reached the file).
\* The results of WriteString, Write and Flush are not looked at.
\* call.load is the error of data.GetCleanPingResults and call.opened
\* whether os.OpenFile was called.
updateAddressFile ==
    /\ calls < MaxCalls
    /\ calls' = calls + 1
    /\ \E type \in FileTypes, pings \in ListsOf(Addrs, MaxPings),
          loadErr \in {"nil", "LoadError"} :
        /\ loadErr # "nil" => pings = <<>>
        /\ IF AfterGetCleanPingResults(loadErr) = "return"
           THEN /\ call' = [type |-> type, pings |-> pings, load |-> loadErr,
                            opened |-> FALSE, fault |-> "load",
                            ret |-> loadErr, warned |-> FALSE]
                /\ UNCHANGED outputFile
           ELSE \/ /\ call' = [type |-> type, pings |-> pings, load |-> loadErr,
                               opened |-> TRUE, fault |-> "open",
                               ret |-> "OpenError", warned |-> FALSE]
                   /\ UNCHANGED outputFile
                \/ /\ call' = [type |-> type, pings |-> pings, load |-> loadErr,
                               opened |-> TRUE, fault |-> "none",
                               ret |-> "nil", warned |-> Warns(type)]
                   /\ outputFile' = outputFile \o Records(type, pings)
                \/ /\ call' = [type |-> type, pings |-> pings, load |-> loadErr,
                               opened |-> TRUE, fault |-> "write",
                               ret |-> "nil", warned |-> Warns(type)]
                   /\ \E k \in 0..(Len(Records(type, pings)) - 1) :
                         outputFile' = outputFile \o SubSeq(Records(type, pings), 1, k)
    /\ UNCHANGED intake

InitWriter ==
    /\ files = {}
    /\ phaseFile = <<>>
    /\ IntakeIdle
    /\ outputFile \in {<<>>, BinRecords(<<1>>), TextRecords(<<1>>)}
    /\ WriterIdle

SpecWriter == InitWriter /\ [][updateAddressFile]_vars

\* ================================================================ claims
Ran(name) == \E i \in 1..Len(steps) : steps[i].step = name

Ok(name) == \E i \in 1..Len(steps) : steps[i] = [step |-> name, err |-> "nil"]

Failed(name) == \E i \in 1..Len(steps) : steps[i].step = name /\ steps[i].err # "nil"

OkBefore(name, i) == \E j \in 1..(i - 1) : steps[j] = [step |-> name, err |-> "nil"]

LastStep == steps[Len(steps)].step

NoDup(s) == \A i, j \in 1..Len(s) : s[i] = s[j] => i = j

FirstIndex(L, x) == CHOOSE i \in 1..Len(L) : L[i] = x /\ \A j \in 1..(i - 1) : L[j] # x

\* The elements of L at the indices S, in the order of L
Pick(L, S) ==
    [k \in 1..Cardinality(S) |->
        L[CHOOSE i \in S : Cardinality({j \in S : j < i}) = k - 1]]

LowEntropy(a, c) ==
    GetEntropyOfBitsFromRight(a, c.InputEntropyBitLength) < c.InputEntropyThreshold

\* The first occurrence of every low-entropy address of L, in the order of L
Survivors(L, c) ==
    Pick(L, {i \in 1..Len(L) : LowEntropy(L[i], c) /\ \A j \in 1..(i - 1) : L[j] # L[i]})

Approved1 == Len(answers) >= 1 /\ answers[1]

Approved2 == Len(answers) >= 2 /\ answers[2]

Mutations ==
    {"cleanUpWorkingDirectories", "createBlankModel", "writeNewAddresses", "updateState"}

\* C1 (as claimed): updateState advances the phase file only in a run whose
\* writeNewAddresses succeeded; a run whose address write failed does not
\* reach Done and does not advance the phase file.
C1_PhaseAdvancesOnlyAfterWrite ==
    /\ Ok("updateState") => Ok("writeNewAddresses")
    /\ Failed("writeNewAddresses") => pc # "Done" /\ ~Ok("updateState")

\* C2: each of the four filesystem mutations comes after the approved
\* cleanup confirmation, the load, the deduplication and the filter, with
\* the surviving count at least InputMinAddresses or the second
\* confirmation approved; until then the workspace is as the run found it.
C2_NoMutationBeforeGates ==
    /\ \A i \in 1..Len(steps) :
          steps[i].step \in Mutations =>
            /\ Approved1
            /\ OkBefore("confirmCleanUpExisting", i)
            /\ OkBefore("getIPsFromFile", i)
            /\ OkBefore("removeDuplicateIPs", i)
            /\ OkBefore("filterOutHighEntropyIPs", i)
            /\ \/ Len(addrs) >= conf.InputMinAddresses
               \/ Approved2 /\ OkBefore("confirmTooFew", i)
    /\ (\A i \in 1..Len(steps) : steps[i].step \notin Mutations) => workspace = before

\* a run that asked twice, was approved twice and went through every mutation
C2_Witness == pc = "Done" /\ Approved2 /\ Len(addrs) < conf.InputMinAddresses

\* C3: when the operator declines the cleanup prompt or the too-few prompt,
\* the run returns an error and the workspace (files and phase file) is
\* exactly as before the run.
C3_DeclineLeavesWorkspace ==
    (\E k \in 1..Len(answers) : ~answers[k]) =>
        /\ pc = "Aborted"
        /\ err # "nil"
        /\ workspace = before

\* the second prompt declined in a workspace that holds files and a phase
C3_Witness ==
    /\ Len(answers) = 2
    /\ ~answers[2]
    /\ before.files # {}
    /\ before.phaseFile # <<>>

\* C4 (as claimed): a step that fails is the last step of its run, and the
\* run ends returning an error.
C4_FailedStepEndsRun ==
    \A i \in 1..Len(steps) :
        steps[i].err \notin {"nil", "panic"} =>
            /\ i = Len(steps)
            /\ pc \in Finished => pc = "Aborted" /\ err # "nil"

\* C5: createBlankModel, writeNewAddresses and updateState run only after
\* cleanUpWorkingDirectories returned nil in the same run; a failing reset
\* is the last step of its run, which returns the reset's error.
C5_BootstrapOnlyAfterReset ==
    /\ \A i \in 1..Len(steps) :
          steps[i].step \in {"createBlankModel", "writeNewAddresses", "updateState"} =>
            OkBefore("cleanUpWorkingDirectories", i)
    /\ Failed("cleanUpWorkingDirectories") =>
          /\ LastStep = "cleanUpWorkingDirectories"
          /\ pc = "Aborted"
          /\ err = "IOError"

\* a reset that failed after deleting some files and not others
C5_Witness ==
    /\ Failed("cleanUpWorkingDirectories")
    /\ files # {}
    /\ files # before.files

\* C6 (as claimed): after updateState the store holds exactly one phase,
\* and it is not earlier in the phase order than the phase stored before
\* the run.
C6_PhaseOnlyMovesForward ==
    Ok("updateState") =>
        /\ Len(phaseFile) = 1
        /\ before.phaseFile # <<>> => phaseFile[1] >= before.phaseFile[1]

\* C6 (amended): the store never holds more than one phase; a successful
\* updateState stores NETWORK_GROUP whatever was stored before the run, and
\* a run that returns nil leaves NETWORK_GROUP in the store.
C6_UpdateStateStoresNetworkGroup ==
    /\ Len(phaseFile) <= 1
    /\ Ok("updateState") => phaseFile = <<NETWORK_GROUP>>
    /\ pc = "Done" => phaseFile = <<NETWORK_GROUP>> /\ Ok("updateState")

\* a later run that found a phase after NETWORK_GROUP and completed
C6_Witness ==
    /\ now >= 2
    /\ pc = "Done"
    /\ before.phaseFile # <<>>
    /\ before.phaseFile[1] > NETWORK_GROUP

\* C7 (as claimed): after a run that returns nil the result file written by
\* the run holds exactly the first occurrences of the low-entropy input
\* addresses, in input order, and the phase file holds NETWORK_GROUP.
C7_NilRunWritesSurvivors ==
    (pc = "Done" /\ err = "nil") =>
        /\ phaseFile = <<NETWORK_GROUP>>
        /\ \E f \in files :
              /\ f.dir = "ping"
              /\ f.t = now
              /\ f.data = HexLines(Survivors(inputFile.addrs, conf))

\* C8: when filterOutHighEntropyIPs returns, its result is the addresses of
\* its argument whose score is strictly below the threshold, in their
\* original order; it is no longer than the argument, and equal to it when
\* the threshold exceeds every score.
C8_FilterKeepsLowEntropyInOrder ==
    pc = "ThresholdCheck" =>
        /\ addrs = Pick(filterIn, {i \in 1..Len(filterIn) : LowEntropy(filterIn[i], conf)})
        /\ Len(addrs) <= Len(filterIn)
        /\ (\A i \in 1..Len(filterIn) : LowEntropy(filterIn[i], conf)) => addrs = filterIn

\* a list with a repeated address of which some were kept and some dropped
C8_Witness ==
    /\ pc = "ThresholdCheck"
    /\ Len(addrs) > 1
    /\ Len(addrs) < Len(filterIn)
    /\ ~NoDup(addrs)

\* C9: the deduplicated list holds every distinct input address exactly
\* once, in order of first appearance, and deduplicating it again changes
\* nothing; the list given to the filter and the result file written by
\* the run hold no address twice.
C9_DedupOncePerValueInOrder ==
    /\ pc = "Filtering" =>
          /\ Range(addrs) = Range(inputFile.addrs)
          /\ NoDup(addrs)
          /\ \A k, l \in 1..Len(addrs) :
                k < l => FirstIndex(inputFile.addrs, addrs[k]) < FirstIndex(inputFile.addrs, addrs[l])
          /\ GetUniqueIPs(addrs) = addrs
    /\ NoDup(filterIn)
    /\ \A f \in files : f.dir = "ping" /\ f.t = now => NoDup(f.data)

\* the input [A, B, A, C] went through the run and was written
C9_Witness ==
    /\ inputFile.addrs = <<0, 1, 0, 2>>
    /\ pc = "Done"
    /\ Ok("writeNewAddresses")

\* One record per clean ping result: the raw bytes for "bin", the text form
\* and a newline for every other type
ExpectedRecords(type, pings) ==
    Concat([i \in 1..Len(pings) |->
        IF type = "bin" THEN ToBytes(pings[i]) ELSE IPString(pings[i]) \o Newline])

\* C10 (as claimed): a call of updateAddressFile leaves the previous content
\* as a prefix of the file, and a call that returns nil has appended one
\* record per clean ping result, in order, in the encoding of
\* OutputFileType, warning exactly when the type is neither "bin" nor "text".
C10_AppendsOneRecordPerPing ==
    [][calls' = calls + 1 =>
        /\ IsPrefix(outputFile, outputFile')
        /\ call'.ret = "nil" =>
              /\ outputFile' = outputFile \o ExpectedRecords(call'.type, call'.pings)
              /\ call'.warned <=> call'.type \notin {"bin", "text"}]_vars

AfterThreshold ==
    {"ResettingWorkspace", "Bootstrapping", "Writing", "AdvancingState", "Done"}

\* C11: the operator is asked at most twice in a run; the second prompt is
\* shown only after the filter and only when the surviving count is
\* strictly below InputMinAddresses, and a run that has passed the
\* threshold check was asked a second time exactly when the count was
\* below the minimum.
C11_SecondPromptIffTooFew ==
    /\ Len(answers) <= 2
    /\ Len(answers) = 2 =>
          /\ Ok("filterOutHighEntropyIPs")
          /\ Len(addrs) < conf.InputMinAddresses
    /\ (pc \in AfterThreshold \/ Ran("cleanUpWorkingDirectories")) =>
          (Len(answers) = 2 <=> Len(addrs) < conf.InputMinAddresses)

\* a run whose surviving count equals the minimum reached the reset
\* after one prompt only
C11_Witness ==
    /\ pc = "ResettingWorkspace"
    /\ Len(addrs) = conf.InputMinAddresses
    /\ Len(answers) = 1

\* C12 (as claimed): a call of updateAddressFile in which the load, the
\* open, a write or the flush failed returns a non-nil error, so a nil
\* return means that no operation failed.
C12_FailuresAreReported == call.fault # "none" => call.ret # "nil"

\* The pipeline's steps in the order of PrepareFromInputFile
StepOrder ==
    <<"confirmCleanUpExisting", "getIPsFromFile", "removeDuplicateIPs",
      "filterOutHighEntropyIPs", "confirmTooFew", "cleanUpWorkingDirectories",
      "createBlankModel", "writeNewAddresses", "updateState">>

OrderOf(name) == CHOOSE k \in 1..Len(StepOrder) : StepOrder[k] = name

Running == {"Confirming", "Loading", "Deduplicating", "Filtering", "ThresholdCheck"}
               \cup (AfterThreshold \ {"Done"})

\* C13: the steps a run has executed follow the fixed order with no step
\* twice; a run that has not ended can always take its next step and a run
\* that has ended (Done, Aborted or a fatal failure) takes none; every
\* prompt belongs to one of the two confirmations, and once the run is
\* past them every answer was an approval and only a failing step ends it.
C13_EachStepOnceInOrder ==
    /\ \A i, j \in 1..Len(steps) :
          i < j => OrderOf(steps[i].step) < OrderOf(steps[j].step)
    /\ pc \in Running \cup Finished \cup {"Idle"}
    /\ pc \in Running => ENABLED PrepareFromInputFile
    /\ pc \in Finished => ~ENABLED PrepareFromInputFile
    /\ pc = "Done" <=> Ok("updateState")
    /\ Len(answers) = Cardinality({i \in 1..Len(steps) :
                          steps[i].step \in {"confirmCleanUpExisting", "confirmTooFew"}})
    /\ (pc \in AfterThreshold \/ Ran("cleanUpWorkingDirectories")) =>
          /\ \A k \in 1..Len(answers) : answers[k]
          /\ pc = "Aborted" => err = "IOError" /\ steps[Len(steps)].err = "IOError"

\* a run that took all nine steps and reached Done
C13_Witness == pc = "Done" /\ Len(steps) = 9

\* The encoding names the loader knows: the binary one and the text ones
KnownInputTypes == {"bin", "text", "hex"}

\* the decoder follows the declared encoding: binary exactly for "bin"
DecoderFollowsType ==
    Ran("getIPsFromFile") =>
        load.decoder = (IF fileType = "bin" THEN "bin" ELSE "hex")

\* a decode error is returned to the pipeline, which aborts before dedup
DecodeErrorAborts ==
    Failed("getIPsFromFile") =>
        /\ pc = "Aborted"
        /\ err = "FormatError"
        /\ ~Ran("removeDuplicateIPs")

\* C14: getIPsFromFile uses the binary decoder exactly when the declared
\* encoding is "bin" and the text decoder otherwise; for an encoding that
\* is not a known name it decodes as text and logs a warning; a decode
\* error ends the run before deduplication.
C14_UnknownEncodingWarns ==
    /\ DecoderFollowsType
    /\ DecodeErrorAborts
    /\ (Ran("getIPsFromFile") /\ fileType \notin KnownInputTypes) =>
          /\ load.decoder = "hex"
          /\ "warning" \in Range(load.log)

\* The progress-log intervals the filter is compared across
EmitFreqs == {c.InputEmitFreq : c \in PureConfs}

\* C15: whatever the progress-log interval (0 included), a call of
\* filterOutHighEntropyIPs returns without fault, and what it returns is
\* the list it returns under every other interval.
C15_EmitFreqAffectsLoggingOnly ==
    Ran("filterOutHighEntropyIPs") =>
        /\ pc # "Panicked"
        /\ steps[Len(steps)].err = "nil"
        /\ \A f \in EmitFreqs :
              addrs = filterOutHighEntropyIPs(filterIn, [conf EXCEPT !.InputEmitFreq = f])

\* The blank model createBlankModel writes in the current run
BlankModel == [dir |-> "model", t |-> now, data |-> <<>>]

\* C16: after a run that returned nil, no file that was in the workspace
\* when the run began is still there; the blank model of this run exists,
\* it is the only model file, and a result file is the address file this
\* run wrote, of which there is at most one.
C16_NoStaleFileSurvivesNilRun ==
    (pc = "Done" /\ err = "nil") =>
        /\ files \cap before.files = {}
        /\ BlankModel \in files
        /\ \A f \in files :
              \/ f = BlankModel
              \/ f.dir = "ping" /\ f.t = now /\ IsPrefix(f.data, HexLines(addrs))
        /\ Cardinality({f \in files : f.dir = "ping"}) <= 1

\* a nil run that began with the model and result files of an earlier run
C16_Witness ==
    /\ pc = "Done"
    /\ err = "nil"
    /\ now >= 2
    /\ \E f \in before.files : f.dir = "model"
    /\ \E f \in before.files : f.dir = "ping"

\* C17: a call of updateAddressFile in which loading the clean ping results
\* fails returns the load error, never calls os.OpenFile (so the output
\* address file is neither opened nor created) and leaves the file's
\* content exactly as it was.
C17_LoadFailureLeavesFile ==
    [][(calls' = calls + 1 /\ call'.load # "nil") =>
          /\ call'.ret = call'.load
          /\ ~call'.opened
          /\ outputFile' = outputFile]_vars

\* a failed load in front of an address file that already holds records
C17_Witness ==
    /\ calls > 0
    /\ call.load = "LoadError"
    /\ call.ret = "LoadError"
    /\ outputFile # <<>>

====
